---- MODULE Spec2Model ----
(***************************************************************************)
(* A model of the mobile-mechanics backend: the booking routines of        *)
(* ai_integration/booking.py and the proximity search of                   *)
(* ai_integration/search.py, over the rows held by the hosted data         *)
(* service.                                                                *)
(*                                                                         *)
(* Python values are represented as follows.                               *)
(*   - A dictionary field that may be absent, null or of several types is  *)
(*     a record [kind, ...]: kind "absent" is a missing key, "null" is     *)
(*     None.                                                               *)
(*   - A datetime is an integer number of time slots; an ISO string that   *)
(*     datetime.fromisoformat accepts is [kind |-> "iso", t |-> slot], any *)
(*     other string is [kind |-> "text"].                                  *)
(*   - An exception is a result tag ("KeyError", "ValueError",             *)
(*     "TypeError") that the caller's except clauses dispatch on.          *)
(***************************************************************************)
EXTENDS Integers, Sequences, FiniteSets, TLC

VARIABLES
    bookings,   \* the rows of the data service's 'bookings' table, in insertion order
    avail,      \* the last direct call of is_mechanic_available: arguments, lookup outcome, verdict
    mechanics,  \* the rows of the data service's 'mechanic_profiles' table (with the joined users)
    nearby,     \* the last call of nearby_mechanics: arguments, query outcome, lists built, result
    last,       \* the last booking handler call: arguments, steps taken, value returned
    accounts,   \* the 'mechanic_profiles' and 'users' rows of each user id, as the profile routines see them
    http,       \* the last reply of a profile endpoint: request, status code, body
    search,     \* the last call of search_mechanics: arguments, query sent, rows returned
    calls       \* the create_booking calls in progress at the same time: for each caller, where its call stands

vars == <<bookings, avail, mechanics, nearby, last, accounts, http, search, calls>>

----------------------------------------------------------------------------
(* Bounds of the model *)

MaxTime == 2        \* booking times are the slots 0 .. MaxTime
MaxDur == 2         \* service durations are 1 .. MaxDur slots
MaxRows == 2        \* rows in the bookings table when the overlap check is called directly
MaxCoord == 3       \* mechanics lie 0 .. MaxCoord grid steps north of the origin
MaxMech == 2        \* rows in the mechanic_profiles table
MaxLimit == 2       \* nearby_mechanics is called with limit 0 .. MaxLimit
MaxBookings == 2    \* rows the bookings table can hold when bookings are created

Times == 0 .. MaxTime
Durs == 1 .. MaxDur
Mechanics == {"m1", "m2"}

\* The status a row has when its 'status' key is missing (dict.get returns None).
NoStatus == "<none>"

----------------------------------------------------------------------------
(* Python values *)

Iso(t) == [kind |-> "iso", t |-> t]
NotIso == [kind |-> "text", t |-> 0]
NullTime == [kind |-> "null", t |-> 0]
AbsentTime == [kind |-> "absent", t |-> 0]

IntDur(n) == [kind |-> "int", n |-> n]
NullDur == [kind |-> "null", n |-> 0]
AbsentDur == [kind |-> "absent", n |-> 0]

\* An id given by the data service, and the id "mock-<uuid4>" of a
\* placeholder booking.
DbId(n) == [kind |-> "db", n |-> n]
MockId == [kind |-> "mock", n |-> 0]

Row(i, m, bt, sd, st) ==
    [id |-> i, user_id |-> "u1", mechanic_id |-> m, booking_time |-> bt,
     service_duration |-> sd, status |-> st]

\* datetime.datetime.fromisoformat(x): the slot of an ISO string, or the
\* exception it raises.
fromisoformat(x) ==
    CASE x.kind = "iso" -> [exc |-> "none", t |-> x.t]
      [] x.kind = "text" -> [exc |-> "ValueError", t |-> 0]
      [] OTHER -> [exc |-> "TypeError", t |-> 0]

----------------------------------------------------------------------------
(* The data service *)

\* A response of the data service: the call raised, or it returned an
\* error, or it returned rows.
Response(outcome, rows) ==
    [raised |-> outcome = "raises", error |-> outcome = "error",
     data |-> IF outcome = "ok" THEN rows ELSE << >>]

LookupOutcomes == {"ok", "error", "raises"}

\* supabase.table("bookings").select("*").eq("mechanic_id", m)
SelectByMechanic(table, m) == SelectSeq(table, LAMBDA b : b.mechanic_id = m)

----------------------------------------------------------------------------
(* is_mechanic_available *)

InactiveStatuses == {"cancelled", "completed"}

\* Mutant: only cancelled bookings are filtered out.
ActiveBookings_OnlyCancelled(data) == SelectSeq(data, LAMBDA b : b.status # "cancelled")

\* Mutant: the scan takes every fetched booking, whatever its status.
ActiveBookings_AnyStatus(data) == data

\* The active bookings of a response.
ActiveBookings(data) == SelectSeq(data, LAMBDA b : b.status \notin InactiveStatuses)

\* Mutant: the overlap test with closed intervals (touching end points overlap).
ExamineBooking_Closed(booking, booking_time, end_time) ==
    IF booking.booking_time.kind = "absent" THEN "KeyError"
    ELSE LET parsed == fromisoformat(booking.booking_time) IN
      IF parsed.exc # "none" THEN parsed.exc
      ELSE IF booking.service_duration.kind = "absent" THEN "KeyError"
      ELSE IF booking.service_duration.kind = "null" THEN "TypeError"
      ELSE LET existing_start == parsed.t
               existing_end == existing_start + booking.service_duration.n
           IN IF (booking_time <= existing_end) /\ (end_time >= existing_start)
              THEN "overlap" ELSE "clear"

\* The body of the loop for one booking: "overlap" when the requested slot
\* overlaps it, "clear" when it does not, or the exception raised.
ExamineBooking(booking, booking_time, end_time) ==
    IF booking.booking_time.kind = "absent" THEN "KeyError"
    ELSE LET parsed == fromisoformat(booking.booking_time) IN
      IF parsed.exc # "none" THEN parsed.exc
      ELSE IF booking.service_duration.kind = "absent" THEN "KeyError"
      ELSE IF booking.service_duration.kind = "null" THEN "TypeError"
      ELSE LET existing_start == parsed.t
               existing_end == existing_start + booking.service_duration.n
           IN IF (booking_time < existing_end) /\ (end_time > existing_start)
              THEN "overlap" ELSE "clear"

\* Mutant: only the first active booking is examined.
ScanBookings_FirstOnly(active, i, booking_time, end_time) ==
    IF i > Len(active) THEN TRUE
    ELSE ExamineBooking(active[i], booking_time, end_time) # "overlap"

\* The loop over the active bookings from position i on: FALSE at the first
\* overlap; KeyError and ValueError skip the booking; any other exception
\* leaves the loop for the outer handler, which answers TRUE.
RECURSIVE ScanBookings(_, _, _, _)
ScanBookings(active, i, booking_time, end_time) ==
    IF i > Len(active) THEN TRUE
    ELSE LET r == ExamineBooking(active[i], booking_time, end_time) IN
      CASE r = "overlap" -> FALSE
        [] r \in {"clear", "KeyError", "ValueError"} ->
             ScanBookings(active, i + 1, booking_time, end_time)
        [] OTHER -> TRUE

\* Mutant: a failed lookup is answered "unavailable" (fail closed).
is_mechanic_available_FailClosed(response, booking_time, service_duration) ==
    LET end_time == booking_time + service_duration IN
    IF response.raised THEN TRUE
    ELSE IF response.error THEN FALSE
    ELSE IF response.data = << >> THEN TRUE
    ELSE ScanBookings(ActiveBookings(response.data), 1, booking_time, end_time)

is_mechanic_available(response, booking_time, service_duration) ==
    LET end_time == booking_time + service_duration IN
    IF response.raised THEN TRUE
    ELSE IF response.error THEN TRUE
    ELSE IF response.data = << >> THEN TRUE
    ELSE ScanBookings(ActiveBookings(response.data), 1, booking_time, end_time)

\* The fetched rows after the call: the filter and the scan only read them.
ScannedRows(response) == response.data

----------------------------------------------------------------------------
(* create_booking and update_booking_status *)

\* process_payment: the simulated payment always succeeds.
process_payment == TRUE

\* Mutant: the prepared record starts in status 'accepted'.
NewBooking_Accepted(user_id, mechanic_id, booking_time, service_duration) ==
    [user_id |-> user_id, mechanic_id |-> mechanic_id, booking_time |-> booking_time,
     service_duration |-> IntDur(service_duration), status |-> "accepted"]

\* The record create_booking prepares for the insert.
NewBooking(user_id, mechanic_id, booking_time, service_duration) ==
    [user_id |-> user_id, mechanic_id |-> mechanic_id, booking_time |-> booking_time,
     service_duration |-> IntDur(service_duration), status |-> "pending"]

\* A prepared record with an id: the row the data service stores, or the
\* placeholder the routine fabricates.
WithId(booking, id) ==
    [id |-> id, user_id |-> booking.user_id, mechanic_id |-> booking.mechanic_id,
     booking_time |-> booking.booking_time,
     service_duration |-> booking.service_duration, status |-> booking.status]

\* The placeholder the exception handler of create_booking builds from the
\* parameters of the call.
FallbackBooking(user_id, mechanic_id, booking_time, service_duration) ==
    [id |-> MockId, user_id |-> user_id, mechanic_id |-> mechanic_id,
     booking_time |-> booking_time, service_duration |-> IntDur(service_duration),
     status |-> "pending"]

InsertOutcomes == {"ok", "error", "empty", "raises"}

\* Mutant: the availability verdict is not consulted.
MayInsert_Always(parsed, available) == parsed.exc = "none"

\* The conditions under which create_booking reaches the insert: the booking
\* time parsed, the mechanic was reported available and the payment went
\* through.
MayInsert(parsed, available) ==
    parsed.exc = "none" /\ available /\ process_payment

\* Mutant: the mechanic is notified before the insert is sent.
create_booking_NotifiesFirst(table, user_id, mechanic_id, booking_time, service_duration, lookup, insert) ==
    LET parsed == fromisoformat(booking_time)
        available ==
            is_mechanic_available(Response(lookup, SelectByMechanic(table, mechanic_id)),
                                  parsed.t, service_duration)
        new_booking == NewBooking(user_id, mechanic_id, booking_time, service_duration)
        row == WithId(new_booking, DbId(Len(table) + 1))
        mock_booking == WithId(new_booking, MockId)
        fallback == FallbackBooking(user_id, mechanic_id, booking_time, service_duration)
        args == [user_id |-> user_id, mechanic_id |-> mechanic_id,
                 booking_time |-> booking_time, service_duration |-> service_duration]
        base == [op |-> "create_booking", args |-> args, lookup |-> "-",
                 available |-> "-", insert |-> "-", steps |-> << >>,
                 stored |-> << >>, returned |-> fallback]
    IN IF parsed.exc # "none"
       THEN [table |-> table, call |-> base]
       ELSE IF ~MayInsert(parsed, available)
       THEN [table |-> table,
             call |-> [base EXCEPT !.lookup = lookup, !.available = "no",
                                   !.steps = <<"select">>]]
       ELSE IF insert = "ok"
       THEN [table |-> Append(table, row),
             call |-> [base EXCEPT !.lookup = lookup,
                                   !.available = IF available THEN "yes" ELSE "no",
                                   !.insert = insert,
                                   !.steps = <<"select", "process_payment", "insert",
                                               "send_notification">>,
                                   !.stored = <<row>>, !.returned = row]]
       ELSE [table |-> table,
             call |-> [base EXCEPT !.lookup = lookup,
                                   !.available = IF available THEN "yes" ELSE "no",
                                   !.insert = insert,
                                   !.steps = <<"select", "process_payment",
                                               "send_notification", "insert">>,
                                   !.returned = IF insert = "raises" THEN fallback
                                                ELSE mock_booking]]

\* create_booking over the table, with the outcomes of its two data-service
\* calls: the new table, the steps taken in order, and the value returned.
\* A row is stored only by an insert that succeeds.
create_booking(table, user_id, mechanic_id, booking_time, service_duration, lookup, insert) ==
    LET parsed == fromisoformat(booking_time)
        available ==
            is_mechanic_available(Response(lookup, SelectByMechanic(table, mechanic_id)),
                                  parsed.t, service_duration)
        new_booking == NewBooking(user_id, mechanic_id, booking_time, service_duration)
        row == WithId(new_booking, DbId(Len(table) + 1))
        mock_booking == WithId(new_booking, MockId)
        fallback == FallbackBooking(user_id, mechanic_id, booking_time, service_duration)
        args == [user_id |-> user_id, mechanic_id |-> mechanic_id,
                 booking_time |-> booking_time, service_duration |-> service_duration]
        base == [op |-> "create_booking", args |-> args, lookup |-> "-",
                 available |-> "-", insert |-> "-", steps |-> << >>,
                 stored |-> << >>, returned |-> fallback]
    IN IF parsed.exc # "none"
       THEN [table |-> table, call |-> base]
       ELSE IF ~MayInsert(parsed, available)
       THEN [table |-> table,
             call |-> [base EXCEPT !.lookup = lookup, !.available = "no",
                                   !.steps = <<"select">>]]
       ELSE IF insert = "ok"
       THEN [table |-> Append(table, row),
             call |-> [base EXCEPT !.lookup = lookup,
                                   !.available = IF available THEN "yes" ELSE "no",
                                   !.insert = insert,
                                   !.steps = <<"select", "process_payment", "insert",
                                               "send_notification">>,
                                   !.stored = <<row>>, !.returned = row]]
       ELSE [table |-> table,
             call |-> [base EXCEPT !.lookup = lookup,
                                   !.available = IF available THEN "yes" ELSE "no",
                                   !.insert = insert,
                                   !.steps = <<"select", "process_payment", "insert">>,
                                   !.returned = IF insert = "raises" THEN fallback
                                                ELSE mock_booking]]

\* update(...).eq("id", booking_id): the table with the status of the
\* matching rows replaced.
UpdateStatus(table, booking_id, new_status) ==
    [i \in 1 .. Len(table) |->
        IF table[i].id = booking_id THEN [table[i] EXCEPT !.status = new_status]
        ELSE table[i]]

\* update_booking_status over the table, with the outcome of its data-service
\* call: the new table and the value returned (id and status; the placeholder
\* carries only those).
update_booking_status(table, booking_id, new_status, outcome) ==
    LET updated == UpdateStatus(table, booking_id, new_status)
        matched == SelectSeq(updated, LAMBDA b : b.id = booking_id)
        mock == [id |-> booking_id, status |-> new_status]
        base == [op |-> "update_booking_status",
                 args |-> [booking_id |-> booking_id, new_status |-> new_status],
                 lookup |-> "-", available |-> "-", insert |-> outcome,
                 steps |-> <<"update">>, stored |-> << >>, returned |-> mock]
    IN IF outcome # "ok" THEN [table |-> table, call |-> base]
       ELSE IF matched = << >> THEN [table |-> updated, call |-> base]
       ELSE [table |-> updated,
             call |-> [base EXCEPT !.stored = <<matched[1]>>,
                                   !.returned = [id |-> matched[1].id,
                                                 status |-> matched[1].status]]]

----------------------------------------------------------------------------
(* nearby_mechanics *)

(* Geometry.  Coordinates are whole steps of 0.0005 degree on a grid around   *)
(* latitude 0, longitude 0; distances and radii are whole metres; a          *)
(* 'distance' field (a distance in km rounded to one decimal) is a whole     *)
(* number of tenths of a km.  On this grid the Haversine formula with        *)
(* R = 6371 km evaluates, to the metre, to                                   *)
(*     R * (pi/180) * 0.0005 * sqrt(dlat^2 + dlon^2)  km                     *)
(* (sin x = x, cos x = 1 and atan2(sqrt a, sqrt(1-a)) = sqrt a hold there    *)
(* to better than 1e-9), i.e. 55.597 m * sqrt(dlat^2 + dlon^2).              *)

StepMetresSq100 == 309108   \* (55.59746 m)^2 * 100: the squared length of one grid step
MockOffset == 20            \* 0.01 degree, in grid steps
MockDistance == 15          \* 1.5 km, in tenths of a km

Num(v) == [kind |-> "num", v |-> v]
NullNum == [kind |-> "null", v |-> 0]
AbsentNum == [kind |-> "absent", v |-> 0]

\* Strings are sequences of characters.
Text(chars) == [kind |-> "text", s |-> chars]
NullText == [kind |-> "null", s |-> << >>]
AbsentText == [kind |-> "absent", s |-> << >>]
\* A list of strings, as the 'specialties' of the placeholder records.
TextList(items) == [kind |-> "list", s |-> items]
ListOfTexts == TextList(<< <<"A", "b">> >>)

\* The joined 'users' object of a profile, as a record of kind "dict", or
\* null, or a missing key.
UserDict == [kind |-> "dict", full_name |-> "Ann"]
NullUser == [kind |-> "null", full_name |-> ""]
AbsentUser == [kind |-> "absent", full_name |-> ""]

Mechanic(i, lat, lng, sp, us) ==
    [id |-> i, current_latitude |-> lat, current_longitude |-> lng,
     specialties |-> sp, users |-> us, distance |-> AbsentNum,
     full_name |-> AbsentText.kind]

\* math.sqrt, to the integer below, by bisection: lo * lo <= n < hi * hi.
RECURSIVE ISqrtBetween(_, _, _)
ISqrtBetween(n, lo, hi) ==
    IF hi - lo <= 1 THEN lo
    ELSE LET mid == (lo + hi) \div 2
         IN IF mid * mid <= n THEN ISqrtBetween(n, mid, hi) ELSE ISqrtBetween(n, lo, mid)

ISqrt(n) == ISqrtBetween(n, 0, 46340)

\* str.lower() on one character.
LowerChar(c) ==
    CASE c = "A" -> "a" [] c = "B" -> "b" [] c = "C" -> "c" [] c = "M" -> "m" [] OTHER -> c

\* str.lower()
Lower(str) == [i \in 1 .. Len(str) |-> LowerChar(str[i])]

\* Python's "sub in str".
Contains(sub, str) ==
    \E k \in 0 .. (Len(str) - Len(sub)) : SubSeq(str, k + 1, k + Len(sub)) = sub

\* repr() of a string without quote characters.
Quoted(item) == <<"'">> \o item \o <<"'">>

RECURSIVE JoinItems(_, _)
JoinItems(items, i) ==
    IF i > Len(items) THEN << >>
    ELSE (IF i > 1 THEN <<",", " ">> ELSE << >>) \o Quoted(items[i]) \o JoinItems(items, i + 1)

\* str(): a string is itself; a list is the bracketed, comma-separated
\* reprs of its items.
Str(x) == IF x.kind = "list" THEN <<"[">> \o JoinItems(x.s, 1) \o <<"]">> ELSE x.s

\* m.get(key) is not None
IsPresent(x) == x.kind \notin {"absent", "null"}

\* Truthiness of a Python value.
Truthy(x) == IsPresent(x) /\ (x.kind \in {"text", "list"} => x.s # << >>)

\* Mutant: a distance that does not vanish when the two points coincide.
Haversine_NeverZero(lat1, lon1, lat2, lon2) ==
    LET dlat == lat2 - lat1
        dlon == lon2 - lon1
    IN ISqrt(StepMetresSq100 * (dlat * dlat + dlon * dlon + 1)) \div 10

\* The Haversine distance in metres between two grid points.
Haversine(lat1, lon1, lat2, lon2) ==
    LET dlat == lat2 - lat1
        dlon == lon2 - lon1
    IN ISqrt(StepMetresSq100 * (dlat * dlat + dlon * dlon)) \div 10

\* Mutant: the distance is cut to the tenth of a km below.
Round1_Truncated(metres) == metres \div 100

\* round(distance, 1): metres to tenths of a km, to the nearest, a tie to
\* the even tenth.
Round1(metres) ==
    LET q == metres \div 100
        r == metres % 100
    IN IF r < 50 THEN q
       ELSE IF r > 50 THEN q + 1
       ELSE IF q % 2 = 0 THEN q ELSE q + 1

\* Mutant: a profile is kept when either coordinate is present.
HasCoordinates_Either(m) ==
    IsPresent(m.current_latitude) \/ IsPresent(m.current_longitude)

\* The test of the first comprehension: both coordinates are present.
HasCoordinates(m) ==
    IsPresent(m.current_latitude) /\ IsPresent(m.current_longitude)

\* The test of the second comprehension: the profile's specialties contain
\* the filter text, compared in lower case.
MatchesSpecialty(m, specialty) ==
    Truthy(m.specialties) /\ Contains(Lower(specialty.s), Lower(Str(m.specialties)))

\* The mechanics left after the two filters.
Candidates(data, specialty) ==
    LET located == SelectSeq(data, HasCoordinates)
    IN IF Truthy(specialty)
       THEN SelectSeq(located, LAMBDA m : MatchesSpecialty(m, specialty))
       ELSE located

\* The distance computed for a mechanic.
ComputedDistance(m, latitude, longitude) ==
    Haversine(latitude, longitude, m.current_latitude.v, m.current_longitude.v)

\* Mutant: the loop body also clears the mechanic's specialties.
Annotated_ClearsSpecialties(m, latitude, longitude) ==
    [m EXCEPT !.distance = Num(Round1(ComputedDistance(m, latitude, longitude))),
              !.specialties = NullText]

\* The loop body's updates of the mechanic object: the rounded distance is
\* attached, and a non-empty users object is popped into full_name.
Annotated(m, latitude, longitude) ==
    LET withDistance ==
          [m EXCEPT !.distance = Num(Round1(ComputedDistance(m, latitude, longitude)))]
    IN IF m.users.kind = "dict"
       THEN [withDistance EXCEPT !.users = AbsentUser, !.full_name = m.users.full_name]
       ELSE withDistance

\* Mutant: the radius test excludes the boundary.
WithinRadius_Strict(m, latitude, longitude, radius) ==
    ComputedDistance(m, latitude, longitude) < radius

\* The radius test, on the distance as computed.
WithinRadius(m, latitude, longitude, radius) ==
    ComputedDistance(m, latitude, longitude) <= radius

\* list.sort(key=lambda x: x['distance']): a stable sort on the attached field.
RECURSIVE InsertByDistance(_, _)
InsertByDistance(sorted, m) ==
    IF sorted = << >> THEN <<m>>
    ELSE IF sorted[Len(sorted)].distance.v <= m.distance.v THEN Append(sorted, m)
    ELSE Append(InsertByDistance(SubSeq(sorted, 1, Len(sorted) - 1), m),
                sorted[Len(sorted)])

RECURSIVE SortFrom(_, _, _)
SortFrom(list, i, sorted) ==
    IF i > Len(list) THEN sorted
    ELSE SortFrom(list, i + 1, InsertByDistance(sorted, list[i]))

SortByDistance(list) == SortFrom(list, 1, << >>)

\* nearby_results after the loop and the sort.
NearbyResults(data, latitude, longitude, radius, specialty) ==
    LET candidates == Candidates(data, specialty)
        kept == SelectSeq(candidates,
                          LAMBDA m : WithinRadius(m, latitude, longitude, radius))
    IN SortByDistance([i \in 1 .. Len(kept) |-> Annotated(kept[i], latitude, longitude)])

\* The placeholder appended when nothing is within the radius.
MockMechanic(latitude, longitude) ==
    [id |-> "mock-id-1", current_latitude |-> Num(latitude + MockOffset),
     current_longitude |-> Num(longitude + MockOffset),
     specialties |-> ListOfTexts, users |-> AbsentUser,
     distance |-> Num(MockDistance), full_name |-> "John Smith"]

\* The placeholder returned when the query fails.
FallbackMechanic(latitude, longitude) ==
    [id |-> "mock-id-1", current_latitude |-> Num(latitude + MockOffset),
     current_longitude |-> Num(longitude + MockOffset),
     specialties |-> ListOfTexts, users |-> AbsentUser,
     distance |-> Num(MockDistance), full_name |-> "John Smith"]

\* list[:limit]
Truncate(list, limit) ==
    IF limit >= 0 THEN SubSeq(list, 1, IF limit < Len(list) THEN limit ELSE Len(list))
    ELSE SubSeq(list, 1, Len(list) + limit)

\* Mutant: a failed query is answered with an empty list.
nearby_mechanics_EmptyOnFailure(response, latitude, longitude, radius, specialty, limit) ==
    IF response.raised \/ response.error
    THEN << >>
    ELSE LET nearby_results ==
               NearbyResults(response.data, latitude, longitude, radius, specialty)
         IN IF Len(nearby_results) = 0
            THEN Truncate(<<MockMechanic(latitude, longitude)>>, limit)
            ELSE Truncate(nearby_results, limit)

nearby_mechanics(response, latitude, longitude, radius, specialty, limit) ==
    IF response.raised \/ response.error
    THEN <<FallbackMechanic(latitude, longitude)>>
    ELSE LET nearby_results ==
               NearbyResults(response.data, latitude, longitude, radius, specialty)
         IN IF Len(nearby_results) = 0
            THEN Truncate(<<MockMechanic(latitude, longitude)>>, limit)
            ELSE Truncate(nearby_results, limit)

\* The fetched rows after the call: the objects that reached the loop carry
\* its updates.
FetchedAfter(response, latitude, longitude, specialty) ==
    [i \in 1 .. Len(response.data) |->
        LET m == response.data[i] IN
        IF HasCoordinates(m) /\ (Truthy(specialty) => MatchesSpecialty(m, specialty))
        THEN Annotated(m, latitude, longitude) ELSE m]

----------------------------------------------------------------------------
(* search_mechanics *)

MaxPage == 3        \* search_mechanics is called with page 1 .. MaxPage
MaxPageSize == 3    \* and with limit 1 .. MaxPageSize
MaxMatch == 7       \* rows of mechanic_profiles that match the filters of a search

\* The filters the query carries, in the order they are added.
Filters(specialty, city, rating_min, rating_max) ==
    (IF Truthy(specialty) THEN <<"ilike specialties">> ELSE << >>)
    \o (IF Truthy(city) THEN <<"ilike city">> ELSE << >>)
    \o (IF IsPresent(rating_min) THEN <<"gte rating">> ELSE << >>)
    \o (IF IsPresent(rating_max) THEN <<"lte rating">> ELSE << >>)

\* query.range(from, to) over `matching` rows numbered from 0: the rows
\* from .. to, both included, as far as they exist.
RangeRows(matching, from, to) ==
    LET end == IF to < matching - 1 THEN to ELSE matching - 1
    IN [k \in 1 .. (IF end >= from THEN end - from + 1 ELSE 0) |-> from + k - 1]

\* Mutant: the range ends at offset + limit.
search_mechanics_EndAtNextOffset(specialty, city, rating_min, rating_max, page, limit, matching, outcome) ==
    LET offset == (page - 1) * limit
        query == [filters |-> Filters(specialty, city, rating_min, rating_max),
                  from |-> offset, to |-> offset + limit]
        result == Response(outcome, RangeRows(matching, query.from, query.to))
    IN [query |-> query,
        returned |-> IF result.raised \/ result.error THEN << >> ELSE result.data]

\* search_mechanics, with the number of rows that match its filters and the
\* outcome of the query: the query sent and the list returned.
search_mechanics(specialty, city, rating_min, rating_max, page, limit, matching, outcome) ==
    LET offset == (page - 1) * limit
        query == [filters |-> Filters(specialty, city, rating_min, rating_max),
                  from |-> offset, to |-> offset + limit - 1]
        result == Response(outcome, RangeRows(matching, query.from, query.to))
    IN [query |-> query,
        returned |-> IF result.raised \/ result.error THEN << >> ELSE result.data]

----------------------------------------------------------------------------
(* The profile routines of ai_integration/profile.py *)

MaxUsers == 2       \* user ids known to the profile endpoints

UserId(i) == <<"u1", "u2", "u3">>[i]
UserIds == { UserId(i) : i \in 1 .. MaxUsers }

\* A dictionary key that is not set.
NoValue == "<absent>"

\* What a table holds for a user id: no row, or a row with its 'bio' column.
NoRow == [kind |-> "none", bio |-> NoValue]
ProfileRow(bio) == [kind |-> "row", bio |-> bio]
Bios == {"b1", "b2"}

\* The id of a returned profile: a row's own id, a placeholder's id, or, for
\* a customer, the user id.
RowIdOf(u) == [kind |-> "row", of |-> u]
MockProfileId == [kind |-> "mock-profile-1", of |-> ""]
MockIdOf(u) == [kind |-> "mock-", of |-> u]
UserIdOf(u) == [kind |-> "user", of |-> u]

\* A returned profile, reduced to its id, user_id and bio.
Profile(id, user_id, bio) == [id |-> id, user_id |-> user_id, bio |-> bio]
NoProfile == Profile([kind |-> "none", of |-> ""], NoValue, NoValue)

\* What a routine hands to its caller: a value, or an exception.
Returns(value) == [raised |-> FALSE, value |-> value]

\* select("*").eq(key, id).single(): the row of the id, if any.
SelectSingle(table, id) ==
    IF table[id].kind = "row" THEN <<table[id]>> ELSE << >>

\* Every path of get_mechanic_profile returns a dictionary: the row, or the
\* placeholder when there is no row or the query raises.
get_mechanic_profile(table, mechanic_id, outcome) ==
    LET resp == Response(outcome, SelectSingle(table, mechanic_id))
        mock == Profile(MockProfileId, mechanic_id, "Experienced mechanic")
    IN IF resp.raised THEN Returns(mock)
       ELSE IF resp.data = << >> THEN Returns(mock)
       ELSE Returns(Profile(RowIdOf(mechanic_id), mechanic_id, resp.data[1].bio))

get_customer_profile(table, user_id, outcome) ==
    LET resp == Response(outcome, SelectSingle(table, user_id))
        mock == Profile(UserIdOf(user_id), NoValue, NoValue)
    IN IF resp.raised THEN Returns(mock)
       ELSE IF resp.data = << >> THEN Returns(mock)
       ELSE Returns(Profile(UserIdOf(user_id), NoValue, resp.data[1].bio))

\* update(updates).eq(key, id): the keys set in updates replace the row's.
UpdateRow(row, updates) ==
    IF updates.bio = NoValue THEN row ELSE [row EXCEPT !.bio = updates.bio]

\* update_mechanic_profile over the table, with the outcomes of its update
\* and of the insert it falls back to: the new table and the value returned.
update_mechanic_profile(table, mechanic_id, updates, outcome, insert) ==
    LET mock == Profile(MockIdOf(mechanic_id), mechanic_id, updates.bio)
        updated == [table EXCEPT ![mechanic_id] = UpdateRow(@, updates)]
        created == [table EXCEPT ![mechanic_id] = ProfileRow(updates.bio)]
    IN IF outcome # "ok" THEN [table |-> table, result |-> Returns(mock)]
       ELSE IF table[mechanic_id].kind = "row"
       THEN [table |-> updated,
             result |-> Returns(Profile(RowIdOf(mechanic_id), mechanic_id,
                                        updated[mechanic_id].bio))]
       ELSE IF insert = "ok"
       THEN [table |-> created,
             result |-> Returns(Profile(RowIdOf(mechanic_id), mechanic_id, updates.bio))]
       ELSE [table |-> table, result |-> Returns(mock)]

update_customer_profile(table, user_id, updates, outcome) ==
    LET mock == Profile(UserIdOf(user_id), NoValue, updates.bio)
        updated == [table EXCEPT ![user_id] = UpdateRow(@, updates)]
    IN IF outcome # "ok" THEN [table |-> table, result |-> Returns(mock)]
       ELSE IF table[user_id].kind = "row"
       THEN [table |-> updated,
             result |-> Returns(Profile(UserIdOf(user_id), NoValue, updated[user_id].bio))]
       ELSE [table |-> table, result |-> Returns(mock)]

----------------------------------------------------------------------------
(* The profile endpoints of app.py *)

\* What the body of an endpoint's try block comes to: a returned body, or a
\* raised HTTPException.
Body(role, profile) ==
    [exc |-> "none", status |-> 200, role |-> role, profile |-> profile, detail |-> ""]
HTTPException(status_code, detail) ==
    [exc |-> "HTTPException", status |-> status_code, role |-> "", profile |-> NoProfile,
     detail |-> detail]

\* "except Exception as e: raise HTTPException(status_code=500, ...)" around
\* the body: whatever the body raised, an HTTPException included, is answered
\* with status 500.
ExceptException(outcome, detail) ==
    IF outcome.exc = "none" THEN outcome ELSE HTTPException(500, detail)

\* The body of get_user_profile_endpoint.
get_user_profile_endpoint(user_id, mechanic_lookup, customer_lookup) ==
    LET mechanic == get_mechanic_profile(accounts.mechanic_profiles, user_id, mechanic_lookup)
        customer == get_customer_profile(accounts.users, user_id, customer_lookup)
    IN ExceptException(
         IF ~mechanic.raised THEN Body("mechanic", mechanic.value)
         ELSE IF ~customer.raised THEN Body("customer", customer.value)
         ELSE HTTPException(404, "No profile found"),
         "Profile retrieval error")

MechanicRole == <<"m", "e", "c", "h", "a", "n", "i", "c">>
CustomerRole == <<"c", "u", "s", "t", "o", "m", "e", "r">>

\* profile_data without its "user_id" key.
WithoutUserId(profile_data) == [profile_data EXCEPT !.user_id = NoValue]

\* The body of update_user_profile_endpoint: the new tables and the outcome.
update_user_profile_endpoint(user_id, role, profile_data, outcome, insert) ==
    LET updates == WithoutUserId(profile_data)
        m == update_mechanic_profile(accounts.mechanic_profiles, user_id, updates,
                                     outcome, insert)
        c == update_customer_profile(accounts.users, user_id, updates, outcome)
    IN IF Lower(role) = MechanicRole
       THEN [accounts |-> [accounts EXCEPT !.mechanic_profiles = m.table],
             outcome |-> ExceptException(Body("mechanic", m.result.value),
                                         "Profile update error")]
       ELSE IF Lower(role) = CustomerRole
       THEN [accounts |-> [accounts EXCEPT !.users = c.table],
             outcome |-> ExceptException(Body("customer", c.result.value),
                                         "Profile update error")]
       ELSE [accounts |-> accounts,
             outcome |-> ExceptException(HTTPException(400, "Invalid role"),
                                         "Profile update error")]

----------------------------------------------------------------------------
(* The call records before any call *)

IdleAvail ==
    [phase |-> "idle", mechanic_id |-> "m1", booking_time |-> 0,
     service_duration |-> 1, lookup |-> "ok", fetched |-> << >>, result |-> TRUE]

NoCall ==
    [op |-> "none", args |-> << >>, lookup |-> "-", available |-> "-", insert |-> "-",
     steps |-> << >>, stored |-> << >>, returned |-> << >>]

IdleNearby ==
    [phase |-> "idle", latitude |-> 0, longitude |-> 0, radius |-> 0,
     specialty |-> NullText, limit |-> 0, lookup |-> "ok",
     nearby_results |-> << >>, fetched |-> << >>, result |-> << >>]

NoAccounts == [mechanic_profiles |-> [u \in UserIds |-> NoRow], users |-> [u \in UserIds |-> NoRow]]

NoReply ==
    [op |-> "none", user_id |-> "", role |-> << >>, lookups |-> << >>,
     outcome |-> Body("", NoProfile)]

IdleSearch ==
    [phase |-> "idle", specialty |-> NullText, city |-> NullText, rating_min |-> NullNum,
     rating_max |-> NullNum, page |-> 1, limit |-> 1, matching |-> 0, lookup |-> "ok",
     query |-> [filters |-> << >>, from |-> 0, to |-> 0], returned |-> << >>]

\* A caller with no call in progress.
NoArgs == [user_id |-> "", mechanic_id |-> "", booking_time |-> NotIso, service_duration |-> 0]
IdleCaller ==
    [pc |-> "idle", args |-> NoArgs, lookup |-> "-", available |-> "-", insert |-> "-",
     stored |-> << >>, returned |-> << >>]

Callers == {"c1", "c2"}
NoCalls == [c \in Callers |-> IdleCaller]

----------------------------------------------------------------------------
(* Direct calls of the overlap check over a table drawn from bounded sets *)

\* Rows the table may hold: well-formed rows of mechanic m1 in every status
\* class, rows of m1 whose booking_time or service_duration is missing, null
\* or unparseable, and rows of another mechanic.
RowShapes ==
    { <<"m1", Iso(t), IntDur(d), "pending">> : t \in Times, d \in Durs }
    \cup { <<"m1", Iso(t), IntDur(MaxDur), st>> :
             t \in Times, st \in {"cancelled", "completed"} }
    \cup { <<"m1", Iso(t), IntDur(MaxDur), st>> :
             t \in {0, MaxTime}, st \in {"accepted", NoStatus} }
    \cup { <<"m1", bt, IntDur(1), "pending">> : bt \in {NotIso, NullTime, AbsentTime} }
    \cup { <<"m1", Iso(0), sd, "pending">> : sd \in {NullDur, AbsentDur} }
    \cup { <<"m1", NullTime, IntDur(1), "cancelled">>,
           <<"m1", Iso(0), NullDur, "completed">> }
    \cup { <<"m2", Iso(1), IntDur(MaxDur), "pending">> }

TableOf(shapes) ==
    [i \in 1 .. Len(shapes) |->
        Row(DbId(i), shapes[i][1], shapes[i][2], shapes[i][3], shapes[i][4])]

InitAvail ==
    /\ \E n \in 0 .. MaxRows : \E shapes \in [1 .. n -> RowShapes] :
         bookings = TableOf(shapes)
    /\ avail = IdleAvail
    /\ mechanics = << >>
    /\ nearby = IdleNearby
    /\ last = NoCall
    /\ accounts = NoAccounts
    /\ http = NoReply
    /\ search = IdleSearch
    /\ calls = NoCalls

\* One call is_mechanic_available(m, t, d); the data service answers the
\* lookup with the mechanic's rows, with an error, or by raising.
CheckAvailability ==
    /\ avail.phase = "idle"
    /\ \E m \in {"m1"}, t \in Times, d \in Durs, outcome \in LookupOutcomes :
         LET response == Response(outcome, SelectByMechanic(bookings, m)) IN
         avail' = [phase |-> "done", mechanic_id |-> m, booking_time |-> t,
                   service_duration |-> d, lookup |-> outcome,
                   fetched |-> ScannedRows(response),
                   result |-> is_mechanic_available(response, t, d)]
    /\ UNCHANGED <<bookings, mechanics, nearby, last, accounts, http, search, calls>>

NextAvail == CheckAvailability

SpecAvail == InitAvail /\ [][NextAvail]_vars

----------------------------------------------------------------------------
(* Calls of nearby_mechanics over a profile table drawn from bounded sets *)

\* Profiles the table may hold: located profiles at several distances, profiles
\* with a missing coordinate, and profiles with other specialties or without a
\* joined user.
MechanicShapes ==
    { <<Num(la), Num(0), Text(<<"A", "b">>), UserDict>> : la \in 0 .. MaxCoord }
    \cup { <<Num(1), Num(1), Text(<<"A", "b">>), UserDict>> }
    \cup { <<NullNum, Num(0), Text(<<"A", "b">>), UserDict>>,
           <<Num(0), AbsentNum, Text(<<"A", "b">>), UserDict>> }
    \cup { <<Num(1), Num(0), sp, UserDict>> : sp \in {AbsentText, Text(<<"b">>)} }
    \cup { <<Num(1), Num(0), Text(<<"A", "b">>), NullUser>> }

\* The ids of the profile rows, in table order.
ProfileId(i) == <<"p1", "p2", "p3", "p4">>[i]

ProfilesOf(shapes) ==
    [i \in 1 .. Len(shapes) |->
        Mechanic(ProfileId(i), shapes[i][1], shapes[i][2], shapes[i][3], shapes[i][4])]

Radii == {0, 55, 160}
SpecialtyFilters == {NullText, Text(<< >>), Text(<<"a", "B">>)}
Limits == 0 .. MaxLimit

InitNearby ==
    /\ \E n \in 0 .. MaxMech : \E shapes \in [1 .. n -> MechanicShapes] :
         mechanics = ProfilesOf(shapes)
    /\ nearby = IdleNearby
    /\ bookings = << >>
    /\ avail = IdleAvail
    /\ last = NoCall
    /\ accounts = NoAccounts
    /\ http = NoReply
    /\ search = IdleSearch
    /\ calls = NoCalls

\* One call nearby_mechanics(latitude, longitude, radius, specialty, limit);
\* the data service answers the query with the profiles, with an error, or
\* by raising.
SearchNearby ==
    /\ nearby.phase = "idle"
    /\ \E la \in 0 .. 1, r \in Radii, sp \in SpecialtyFilters, lim \in Limits,
          outcome \in LookupOutcomes :
         LET response == Response(outcome, mechanics) IN
         nearby' = [phase |-> "done", latitude |-> la, longitude |-> 0, radius |-> r,
                    specialty |-> sp, limit |-> lim, lookup |-> outcome,
                    nearby_results |->
                        IF outcome = "ok"
                        THEN NearbyResults(response.data, la, 0, r, sp) ELSE << >>,
                    fetched |-> FetchedAfter(response, la, 0, sp),
                    result |-> nearby_mechanics(response, la, 0, r, sp, lim)]
    /\ UNCHANGED <<bookings, avail, mechanics, last, accounts, http, search, calls>>

NextNearby == SearchNearby

SpecNearby == InitNearby /\ [][NextNearby]_vars

----------------------------------------------------------------------------
(* Calls of nearby_mechanics with a specialty filter, over profiles whose    *)
(* 'specialties' take every form the column can hold                         *)

SpecialtyForms ==
    { AbsentText, NullText, Text(<< >>), Text(<<"A", "b">>), Text(<<"b">>),
      TextList(<< >>), TextList(<< <<"A", "b">> >>), TextList(<< <<"b">>, <<"A">> >>) }

FilterTexts ==
    { NullText, Text(<< >>), Text(<<"a", "B">>), Text(<<"B">>), Text(<<"'">>),
      Text(<<"b", "'", ",">>) }

InitFilter ==
    /\ \E n \in 0 .. MaxMech : \E forms \in [1 .. n -> SpecialtyForms] :
         mechanics = ProfilesOf([i \in 1 .. n |-> <<Num(0), Num(0), forms[i], UserDict>>])
    /\ nearby = IdleNearby
    /\ bookings = << >>
    /\ avail = IdleAvail
    /\ last = NoCall
    /\ accounts = NoAccounts
    /\ http = NoReply
    /\ search = IdleSearch
    /\ calls = NoCalls

\* One call nearby_mechanics(0, 0, radius, specialty, limit) with a radius
\* and a limit that leave every profile that passes the filters in the list.
SearchBySpecialty ==
    /\ nearby.phase = "idle"
    /\ \E sp \in FilterTexts, outcome \in LookupOutcomes :
         LET response == Response(outcome, mechanics) IN
         nearby' = [phase |-> "done", latitude |-> 0, longitude |-> 0, radius |-> 0,
                    specialty |-> sp, limit |-> MaxMech, lookup |-> outcome,
                    nearby_results |->
                        IF outcome = "ok"
                        THEN NearbyResults(response.data, 0, 0, 0, sp) ELSE << >>,
                    fetched |-> FetchedAfter(response, 0, 0, sp),
                    result |-> nearby_mechanics(response, 0, 0, 0, sp, MaxMech)]
    /\ UNCHANGED <<bookings, avail, mechanics, last, accounts, http, search, calls>>

NextFilter == SearchBySpecialty

SpecFilter == InitFilter /\ [][NextFilter]_vars

----------------------------------------------------------------------------
(* The booking handlers over the bookings table, one call at a time *)

\* The requests made: every time and duration for mechanic m1, an
\* unparseable time, and one window of mechanic m2.
BookingRequests ==
    { <<"m1", bt, d>> : bt \in { Iso(t) : t \in Times } \cup { NotIso }, d \in Durs }
    \cup { <<"m2", Iso(0), MaxDur>> }
NewStatuses == {"accepted", "completed", "cancelled", "archived"}
BookingIds == { DbId(n) : n \in 1 .. MaxBookings } \cup { MockId }

Init ==
    /\ bookings = << >>
    /\ last = NoCall
    /\ avail = IdleAvail
    /\ mechanics = << >>
    /\ nearby = IdleNearby
    /\ accounts = NoAccounts
    /\ http = NoReply
    /\ search = IdleSearch
    /\ calls = NoCalls

\* POST /create-booking: the whole of create_booking, the data service
\* answering its lookup and its insert in any of the ways it can.
CreateBooking ==
    /\ last.op = "none"
    /\ \E req \in BookingRequests, lookup \in LookupOutcomes, insert \in InsertOutcomes :
         LET r == create_booking(bookings, "u1", req[1], req[2], req[3], lookup, insert) IN
         /\ Len(r.table) <= MaxBookings
         /\ bookings' = r.table
         /\ last' = r.call
    /\ UNCHANGED <<avail, mechanics, nearby, accounts, http, search, calls>>

\* PUT /update-booking-status: the whole of update_booking_status.
UpdateBookingStatus ==
    /\ last.op = "none"
    /\ \E id \in BookingIds, st \in NewStatuses, outcome \in LookupOutcomes :
         LET r == update_booking_status(bookings, id, st, outcome) IN
         /\ bookings' = r.table
         /\ last' = r.call
    /\ UNCHANGED <<avail, mechanics, nearby, accounts, http, search, calls>>

\* The endpoint sends the handler's value to the client; the next request
\* can be served.
Respond ==
    /\ last.op # "none"
    /\ last' = NoCall
    /\ UNCHANGED <<bookings, avail, mechanics, nearby, accounts, http, search, calls>>

Next == CreateBooking \/ UpdateBookingStatus \/ Respond

Spec == Init /\ [][Next]_vars

----------------------------------------------------------------------------
(* The booking handlers against a working data service: every call of the   *)
(* data service succeeds                                                    *)

\* POST /create-booking when the lookup and the insert succeed.
CreateBookingServed ==
    /\ last.op = "none"
    /\ \E req \in BookingRequests :
         LET r == create_booking(bookings, "u1", req[1], req[2], req[3], "ok", "ok") IN
         /\ Len(r.table) <= MaxBookings
         /\ bookings' = r.table
         /\ last' = r.call
    /\ UNCHANGED <<avail, mechanics, nearby, accounts, http, search, calls>>

\* PUT /update-booking-status when the update succeeds.
UpdateBookingStatusServed ==
    /\ last.op = "none"
    /\ \E id \in BookingIds, st \in NewStatuses :
         LET r == update_booking_status(bookings, id, st, "ok") IN
         /\ bookings' = r.table
         /\ last' = r.call
    /\ UNCHANGED <<avail, mechanics, nearby, accounts, http, search, calls>>

NextWorking == CreateBookingServed \/ UpdateBookingStatusServed \/ Respond

SpecWorking == Init /\ [][NextWorking]_vars

----------------------------------------------------------------------------
(* Two create_booking calls in progress at the same time, in two workers    *)
(* that share the data service.  A call takes two steps, one for each of    *)
(* its data-service calls; the steps of the two calls interleave freely.    *)

\* A request reaches a worker.
ReceiveBooking(c) ==
    /\ calls[c].pc = "idle"
    /\ \E req \in BookingRequests :
         calls' = [calls EXCEPT ![c] =
                     [IdleCaller EXCEPT !.pc = "received",
                        !.args = [user_id |-> c, mechanic_id |-> req[1],
                                  booking_time |-> req[2], service_duration |-> req[3]]]]
    /\ UNCHANGED <<bookings, avail, mechanics, nearby, last, accounts, http, search>>

\* create_booking up to its insert: the booking time is parsed, the
\* mechanic's bookings are looked up in the table as it now is, the verdict is
\* computed and the payment processed.  When one of these fails the call
\* returns a placeholder booking.
LookupStep(c) ==
    /\ calls[c].pc = "received"
    /\ \E lookup \in LookupOutcomes :
         LET a == calls[c].args
             parsed == fromisoformat(a.booking_time)
             available ==
                 is_mechanic_available(
                     Response(lookup, SelectByMechanic(bookings, a.mechanic_id)),
                     parsed.t, a.service_duration)
             fallback ==
                 FallbackBooking(a.user_id, a.mechanic_id, a.booking_time,
                                 a.service_duration)
         IN calls' = [calls EXCEPT ![c] =
                        IF parsed.exc # "none"
                        THEN [@ EXCEPT !.pc = "done", !.returned = <<fallback>>]
                        ELSE IF ~MayInsert(parsed, available)
                        THEN [@ EXCEPT !.pc = "done", !.lookup = lookup, !.available = "no",
                                       !.returned = <<fallback>>]
                        ELSE [@ EXCEPT !.pc = "insert", !.lookup = lookup,
                                       !.available = "yes"]]
    /\ UNCHANGED <<bookings, avail, mechanics, nearby, last, accounts, http, search>>

\* create_booking from its insert on: the row is inserted into the table as
\* it now is, the mechanic is notified and the row returned; when the insert
\* fails the call returns a placeholder booking.
InsertStep(c) ==
    /\ calls[c].pc = "insert"
    /\ \E insert \in InsertOutcomes :
         LET a == calls[c].args
             new_booking == NewBooking(a.user_id, a.mechanic_id, a.booking_time,
                                       a.service_duration)
             row == WithId(new_booking, DbId(Len(bookings) + 1))
             mock_booking == WithId(new_booking, MockId)
             fallback ==
                 FallbackBooking(a.user_id, a.mechanic_id, a.booking_time,
                                 a.service_duration)
         IN IF insert = "ok"
            THEN /\ bookings' = Append(bookings, row)
                 /\ calls' = [calls EXCEPT ![c] =
                               [@ EXCEPT !.pc = "done", !.insert = insert,
                                         !.stored = <<row>>, !.returned = <<row>>]]
            ELSE /\ bookings' = bookings
                 /\ calls' = [calls EXCEPT ![c] =
                               [@ EXCEPT !.pc = "done", !.insert = insert,
                                         !.returned = IF insert = "raises"
                                                      THEN <<fallback>>
                                                      ELSE <<mock_booking>>]]
    /\ UNCHANGED <<avail, mechanics, nearby, last, accounts, http, search>>

NextConcurrent ==
    \E c \in Callers : ReceiveBooking(c) \/ LookupStep(c) \/ InsertStep(c)

SpecConcurrent == Init /\ [][NextConcurrent]_vars

----------------------------------------------------------------------------
(* Both routines over the same data service: each table is empty or holds   *)
(* a row or two, and each routine is called once, in either order.          *)

InitLookup ==
    /\ bookings \in { << >>, TableOf(<< <<"m1", Iso(0), IntDur(MaxDur), "pending">> >>) }
    /\ mechanics \in { << >>,
                       ProfilesOf(<< <<Num(1), Num(0), Text(<<"A", "b">>), UserDict>> >>),
                       ProfilesOf(<< <<Num(0), NullNum, Text(<<"A", "b">>), UserDict>>,
                                     <<Num(1), Num(0), Text(<<"b">>), NullUser>> >>) }
    /\ avail = IdleAvail
    /\ nearby = IdleNearby
    /\ last = NoCall
    /\ accounts = NoAccounts
    /\ http = NoReply
    /\ search = IdleSearch
    /\ calls = NoCalls

NextLookup == CheckAvailability \/ SearchNearby

SpecLookup == InitLookup /\ [][NextLookup]_vars

----------------------------------------------------------------------------
(* The profile endpoints over the two tables, one request at a time *)

Roles ==
    { MechanicRole, <<"M", "e", "c", "h", "a", "n", "i", "c">>,
      CustomerRole, <<"C", "u", "s", "t", "o", "m", "e", "r">>,
      <<"a", "d", "m", "i", "n">>, << >> }

ProfileData == { [bio |-> b, user_id |-> u] : b \in Bios, u \in {NoValue, UserId(1)} }

InitProfile ==
    /\ accounts \in [mechanic_profiles : [UserIds -> {NoRow, ProfileRow("b1")}],
                     users : [UserIds -> {NoRow, ProfileRow("b1")}]]
    /\ http = NoReply
    /\ search = IdleSearch
    /\ bookings = << >>
    /\ avail = IdleAvail
    /\ mechanics = << >>
    /\ nearby = IdleNearby
    /\ last = NoCall
    /\ calls = NoCalls

\* GET /profile/{user_id}
GetUserProfile ==
    /\ http.op = "none"
    /\ \E user_id \in UserIds, mechanic_lookup \in LookupOutcomes,
          customer_lookup \in LookupOutcomes :
         http' = [op |-> "GET /profile", user_id |-> user_id, role |-> << >>,
                  lookups |-> <<mechanic_lookup>>,
                  outcome |-> get_user_profile_endpoint(user_id, mechanic_lookup,
                                                        customer_lookup)]
    /\ UNCHANGED <<accounts, search, bookings, avail, mechanics, nearby, last, calls>>

\* PUT /profile
UpdateUserProfile ==
    /\ http.op = "none"
    /\ \E user_id \in UserIds, role \in Roles, profile_data \in ProfileData,
          outcome \in LookupOutcomes, insert \in InsertOutcomes :
         LET r == update_user_profile_endpoint(user_id, role, profile_data, outcome, insert)
         IN /\ accounts' = r.accounts
            /\ http' = [op |-> "PUT /profile", user_id |-> user_id, role |-> role,
                        lookups |-> <<outcome>>, outcome |-> r.outcome]
    /\ UNCHANGED <<search, bookings, avail, mechanics, nearby, last, calls>>

\* The reply is sent to the client; the next request can be served.
SendReply ==
    /\ http.op # "none"
    /\ http' = NoReply
    /\ UNCHANGED <<accounts, search, bookings, avail, mechanics, nearby, last, calls>>

NextProfile == GetUserProfile \/ UpdateUserProfile \/ SendReply

SpecProfile == InitProfile /\ [][NextProfile]_vars

----------------------------------------------------------------------------
(* Calls of search_mechanics *)

InitSearch ==
    /\ search = IdleSearch
    /\ accounts = NoAccounts
    /\ http = NoReply
    /\ bookings = << >>
    /\ avail = IdleAvail
    /\ mechanics = << >>
    /\ nearby = IdleNearby
    /\ last = NoCall
    /\ calls = NoCalls

\* One call search_mechanics(specialty, city, rating_min, rating_max, page,
\* limit); the data service finds some number of rows matching the filters
\* and answers with the requested range of them, with an error, or by raising.
SearchMechanics ==
    /\ search.phase = "idle"
    /\ \E specialty \in {NullText, Text(<< >>), Text(<<"a">>)},
          city \in {NullText, Text(<<"x">>)},
          rating_min \in {NullNum, Num(0)}, rating_max \in {NullNum, Num(5)},
          page \in 1 .. MaxPage, limit \in 1 .. MaxPageSize,
          matching \in 0 .. MaxMatch, outcome \in LookupOutcomes :
         LET r == search_mechanics(specialty, city, rating_min, rating_max, page, limit,
                                   matching, outcome)
         IN search' = [phase |-> "done", specialty |-> specialty, city |-> city,
                       rating_min |-> rating_min, rating_max |-> rating_max,
                       page |-> page, limit |-> limit, matching |-> matching,
                       lookup |-> outcome, query |-> r.query, returned |-> r.returned]
    /\ UNCHANGED <<accounts, http, bookings, avail, mechanics, nearby, last, calls>>

NextSearch == SearchMechanics

SpecSearch == InitSearch /\ [][NextSearch]_vars

----------------------------------------------------------------------------
(* The overlap check: what the verdict of a direct call must be *)

\* The rows of the table that belong to the mechanic of the call.
MechanicRows == { i \in 1 .. Len(bookings) : bookings[i].mechanic_id = avail.mechanic_id }

IsActive(b) == b.status # "cancelled" /\ b.status # "completed"
WellFormed(b) == b.booking_time.kind = "iso" /\ b.service_duration.kind = "int"
ActiveRows == { i \in MechanicRows : IsActive(bookings[i]) }

\* s' < s + d and s' + d' > s, for the request of the call and row b.
Overlaps(b) ==
    /\ WellFormed(b)
    /\ avail.booking_time < b.booking_time.t + b.service_duration.n
    /\ avail.booking_time + avail.service_duration > b.booking_time.t

\* The request starts exactly when b ends, or ends exactly when b starts.
Touches(b) ==
    /\ WellFormed(b)
    /\ \/ avail.booking_time = b.booking_time.t + b.service_duration.n
       \/ avail.booking_time + avail.service_duration = b.booking_time.t

LookupOk == avail.phase = "done" /\ avail.lookup = "ok"

\* C1: when the lookup succeeds and every active booking of the mechanic is
\* well-formed, the verdict is "unavailable" if and only if at least one
\* active booking [s, s+d) satisfies s' < s+d and s'+d' > s for the requested
\* window [s', s'+d').
C1_OverlapIff ==
    (LookupOk /\ \A i \in ActiveRows : WellFormed(bookings[i]))
    => (avail.result = FALSE <=> \E i \in ActiveRows : Overlaps(bookings[i]))

C1_Witness ==
    /\ LookupOk
    /\ Cardinality(ActiveRows) = 2
    /\ \A i \in ActiveRows : WellFormed(bookings[i])
    /\ ~Overlaps(bookings[1]) /\ Overlaps(bookings[2])
    /\ avail.result = FALSE

\* C2: a request that touches an active booking (starts exactly at its end,
\* or ends exactly at its start) is reported available when no other active
\* booking overlaps it.
C2_TouchingIsAvailable ==
    (LookupOk /\ \E i \in ActiveRows :
        /\ Touches(bookings[i])
        /\ \A j \in ActiveRows \ {i} : ~Overlaps(bookings[j]))
    => avail.result = TRUE

C2_Witness ==
    /\ LookupOk
    /\ \E i, j \in ActiveRows :
         /\ avail.booking_time = bookings[i].booking_time.t + bookings[i].service_duration.n
         /\ WellFormed(bookings[i])
         /\ avail.booking_time + avail.service_duration = bookings[j].booking_time.t
         /\ WellFormed(bookings[j])
    /\ avail.result = TRUE

\* C3: a booking whose status is 'cancelled' or 'completed' never causes an
\* "unavailable" verdict, whatever its interval; a booking with any other
\* status, or with no status, is active and is tested for overlap.
C3_StatusFilter ==
    /\ (avail.phase = "done" /\ \A i \in MechanicRows :
            Overlaps(bookings[i]) => ~IsActive(bookings[i]))
       => avail.result = TRUE
    /\ (LookupOk /\ (\A i \in ActiveRows : WellFormed(bookings[i]))
               /\ \E i \in MechanicRows :
                    /\ bookings[i].status \notin {"cancelled", "completed"}
                    /\ Overlaps(bookings[i]))
       => avail.result = FALSE

C3_Witness ==
    /\ LookupOk
    /\ Len(bookings) = 2
    /\ bookings[1].status = "cancelled" /\ bookings[2].status = "completed"
    /\ Overlaps(bookings[1]) /\ Overlaps(bookings[2])
    /\ avail.result = TRUE

\* C4: fail-open. Whenever the lookup of the mechanic's bookings fails (the
\* data service returns an error, or the call raises) the verdict is
\* "available", whichever bookings exist.
C4_FailOpen ==
    (avail.phase = "done" /\ avail.lookup \in {"error", "raises"})
    => avail.result = TRUE

C4_Witness ==
    /\ avail.phase = "done" /\ avail.lookup = "error"
    /\ \E i \in ActiveRows : Overlaps(bookings[i])
    /\ avail.result = TRUE

----------------------------------------------------------------------------
(* create_booking: when a row is inserted and what is returned *)

Created == last.op = "create_booking"

StepAt(name) == { i \in 1 .. Len(last.steps) : last.steps[i] = name }
InsertSent == StepAt("insert") # {}

\* The rows that were in the table when the last call began.
RowsBefore == { i \in 1 .. Len(bookings) : <<bookings[i]>> # last.stored }

\* Row b is an active booking of the requested mechanic whose interval
\* overlaps the requested window.
BlocksRequest(b) ==
    /\ b.mechanic_id = last.args.mechanic_id
    /\ b.status \notin {"cancelled", "completed"}
    /\ last.args.booking_time.t < b.booking_time.t + b.service_duration.n
    /\ last.args.booking_time.t + last.args.service_duration > b.booking_time.t

\* C6: create_booking sends an insert to the bookings table only if the
\* booking time parsed, is_mechanic_available returned True for the requested
\* mechanic, time and duration (after a successful lookup: no active booking
\* of that mechanic overlaps the window) and the payment was processed before
\* it; when the mechanic is reported unavailable, or the booking time is not
\* a valid ISO datetime, no insert is sent and no row is stored.
C6_InsertOnlyIfAvailable ==
    Created =>
      /\ InsertSent =>
           /\ last.args.booking_time.kind = "iso"
           /\ last.available = "yes"
           /\ last.lookup = "ok" => \A i \in RowsBefore : ~BlocksRequest(bookings[i])
           /\ \E i \in StepAt("process_payment") : \A j \in StepAt("insert") : i < j
      /\ (last.available = "no" \/ last.args.booking_time.kind # "iso") =>
           /\ ~InsertSent
           /\ last.stored = << >>
      /\ (last.stored # << >>) => InsertSent

C6_Witness ==
    /\ Created
    /\ last.args.booking_time.kind = "iso"
    /\ last.available = "no"
    /\ \E i \in RowsBefore : BlocksRequest(bookings[i])
    /\ ~InsertSent

\* C7 (the claim as stated): every dictionary create_booking returns is a row
\* that this call inserted into the bookings table.
C7_ReturnsInsertedRow ==
    Created =>
      /\ last.stored = <<last.returned>>
      /\ \E i \in 1 .. Len(bookings) : bookings[i] = last.returned

----------------------------------------------------------------------------
(* The proximity search: what a call of nearby_mechanics must return *)

SearchOk == nearby.phase = "done" /\ nearby.lookup = "ok"

\* The fetched profile i has both coordinates.
Located(i) ==
    /\ mechanics[i].current_latitude.kind = "num"
    /\ mechanics[i].current_longitude.kind = "num"

\* The fetched profile i passes the specialty filter of the call.
PassesFilter(i) ==
    \/ nearby.specialty.kind = "null"
    \/ nearby.specialty.s = << >>
    \/ /\ mechanics[i].specialties.kind = "text"
       /\ mechanics[i].specialties.s # << >>
       /\ Contains(Lower(nearby.specialty.s), Lower(mechanics[i].specialties.s))

\* The distance in metres from the query point to a record with coordinates.
DistanceOf(m) ==
    Haversine(nearby.latitude, nearby.longitude,
              m.current_latitude.v, m.current_longitude.v)

InList(list, i) == \E j \in 1 .. Len(list) : list[j].id = mechanics[i].id

\* C8: before truncation, the list holds a fetched candidate if and only if
\* the candidate has both coordinates, passes the specialty filter (when one
\* is given) and its computed distance is <= radius: a candidate exactly at
\* the radius is in, a candidate beyond it is out.
C8_InRadiusIff ==
    SearchOk =>
      \A i \in 1 .. Len(mechanics) :
        InList(nearby.nearby_results, i)
          <=> (Located(i) /\ PassesFilter(i) /\ DistanceOf(mechanics[i]) <= nearby.radius)

C8_Witness ==
    /\ SearchOk
    /\ Len(mechanics) = 2
    /\ Located(1) /\ PassesFilter(1) /\ DistanceOf(mechanics[1]) = nearby.radius
    /\ Located(2) /\ PassesFilter(2) /\ DistanceOf(mechanics[2]) > nearby.radius
    /\ nearby.radius > 0
    /\ InList(nearby.nearby_results, 1) /\ ~InList(nearby.nearby_results, 2)

\* C9 (the claim as stated): no record of the returned list has a 'distance'
\* field (tenths of a km) greater than the requested radius (metres).
C9_AllWithinRadius ==
    nearby.phase = "done" =>
      \A j \in 1 .. Len(nearby.result) :
        nearby.result[j].distance.v * 100 <= nearby.radius

\* C10 (the claim as stated): the returned list is in ascending order of the
\* computed distance from the query point.
C10_SortedByComputedDistance ==
    SearchOk =>
      \A j, k \in 1 .. Len(nearby.result) :
        (j < k /\ nearby.result[j].id # "mock-id-1" /\ nearby.result[k].id # "mock-id-1")
          => DistanceOf(nearby.result[j]) <= DistanceOf(nearby.result[k])

----------------------------------------------------------------------------
(* Failed lookups *)

EmptyResponse == [raised |-> FALSE, error |-> FALSE, data |-> << >>]

LookupFailed(call) == call.phase = "done" /\ call.lookup \in {"error", "raises"}

\* C5: a failed lookup is treated exactly like an empty input. With the same
\* arguments, is_mechanic_available gives the verdict it gives when the lookup
\* returns no rows, and nearby_mechanics (limit >= 1) returns the list it
\* returns when the query returns no rows.
C5_FailureLikeEmpty ==
    /\ LookupFailed(avail) =>
         avail.result =
           is_mechanic_available(EmptyResponse, avail.booking_time, avail.service_duration)
    /\ (LookupFailed(nearby) /\ nearby.limit >= 1) =>
         nearby.result =
           nearby_mechanics(EmptyResponse, nearby.latitude, nearby.longitude,
                            nearby.radius, nearby.specialty, nearby.limit)

C5_Witness ==
    /\ LookupFailed(avail) /\ Len(bookings) = 1 /\ Overlaps(bookings[1])
    /\ avail.result = TRUE
    /\ LookupFailed(nearby) /\ nearby.limit >= 1 /\ Len(mechanics) = 1
    /\ DistanceOf(mechanics[1]) <= nearby.radius
    /\ Len(nearby.result) = 1 /\ nearby.result[1].id = "mock-id-1"

----------------------------------------------------------------------------
(* The proximity search: truncation, filters and the attached distance *)

\* The fetched profile i qualifies for the call: it has both coordinates,
\* passes the specialty filter and lies within the radius.
Qualifies(i) ==
    Located(i) /\ PassesFilter(i) /\ DistanceOf(mechanics[i]) <= nearby.radius

Qualifying == { i \in 1 .. Len(mechanics) : Qualifies(i) }

\* C11 (the claim as stated): when more candidates qualify than limit, exactly
\* limit records are returned and no qualifying candidate that was left out is
\* nearer, by computed distance, than a returned one; in every case the result
\* has at most limit records.
C11_TruncationKeepsNearest ==
    /\ nearby.phase = "done" => Len(nearby.result) <= nearby.limit
    /\ (SearchOk /\ Cardinality(Qualifying) > nearby.limit) =>
         /\ Len(nearby.result) = nearby.limit
         /\ \A i \in Qualifying : \A j \in 1 .. Len(nearby.result) :
              ~InList(nearby.result, i)
                => DistanceOf(mechanics[i]) >= DistanceOf(nearby.result[j])

\* The text t occurs, compared in lower case, in the 'specialties' value sp:
\* in the string when it is a string, in one of the items when it is a list.
OccursIn(t, sp) ==
    \/ sp.kind = "text" /\ Contains(Lower(t), Lower(sp.s))
    \/ sp.kind = "list" /\ \E k \in 1 .. Len(sp.s) : Contains(Lower(t), Lower(sp.s[k]))

\* C12 (the claim as stated): with a specialty filter, a candidate survives
\* the filter if and only if its 'specialties' field is present, non-empty and
\* contains the filter text, compared case-insensitively; with no filter, or
\* an empty one, no candidate is removed by this step.
C12_SpecialtyFilter ==
    SearchOk =>
      \A i \in 1 .. Len(mechanics) :
        Located(i) =>
          (InList(nearby.nearby_results, i)
             <=> \/ nearby.specialty.kind = "null"
                 \/ nearby.specialty.s = << >>
                 \/ /\ mechanics[i].specialties.kind \in {"text", "list"}
                    /\ mechanics[i].specialties.s # << >>
                    /\ OccursIn(nearby.specialty.s, mechanics[i].specialties))

\* The fetched profiles that have both coordinates, in fetch order.
LocatedProfiles ==
    SelectSeq(mechanics, LAMBDA m : m.current_latitude.kind = "num"
                                    /\ m.current_longitude.kind = "num")

\* C13: a fetched profile whose latitude or longitude is absent or null is in
\* neither the list built by the loop nor the returned list, and the call
\* returns what it returns when only the profiles with both coordinates are
\* fetched.
C13_MissingCoordinatesDiscarded ==
    SearchOk =>
      /\ \A i \in 1 .. Len(mechanics) :
           ~Located(i) => ~InList(nearby.nearby_results, i) /\ ~InList(nearby.result, i)
      /\ nearby.result =
           nearby_mechanics(Response("ok", LocatedProfiles), nearby.latitude,
                            nearby.longitude, nearby.radius, nearby.specialty, nearby.limit)

C13_Witness ==
    /\ SearchOk
    /\ Len(mechanics) = 2
    /\ ~Located(1)
    /\ Located(2) /\ Qualifies(2)
    /\ Len(nearby.result) = 1
    /\ nearby.result[1].id = mechanics[2].id

\* |a - b|
AbsDiff(a, b) == IF a >= b THEN a - b ELSE b - a

\* The returned records that come from the fetched profiles.
FromFetched(list) == { j \in 1 .. Len(list) : list[j].id # "mock-id-1" }

\* C14: every record returned from the fetched candidates carries a
\* 'distance' field (tenths of a km) that is its computed distance (metres)
\* rounded to the nearest tenth, and a record is kept when its unrounded
\* distance is within the radius, also when the rounded one is not.
C14_RoundedDistanceAttached ==
    SearchOk =>
      /\ \A j \in FromFetched(nearby.result) :
           /\ nearby.result[j].distance.kind = "num"
           /\ AbsDiff(nearby.result[j].distance.v * 100, DistanceOf(nearby.result[j])) <= 50
           /\ DistanceOf(nearby.result[j]) <= nearby.radius
      /\ \A i \in Qualifying : InList(nearby.nearby_results, i)

C14_Witness ==
    /\ SearchOk
    /\ \E j \in FromFetched(nearby.result) :
         /\ DistanceOf(nearby.result[j]) = nearby.radius
         /\ nearby.result[j].distance.v * 100 > nearby.radius
         /\ nearby.result[j].distance.v = 1

\* The fetched profile i lies at exactly the query coordinates.
AtQueryPoint(i) ==
    /\ Located(i)
    /\ mechanics[i].current_latitude.v = nearby.latitude
    /\ mechanics[i].current_longitude.v = nearby.longitude

\* C15: a candidate at exactly the query coordinates has computed distance 0
\* and, when it passes the specialty filter, is in the list for every radius
\* >= 0, with a 'distance' field of 0; it is returned whenever the limit does
\* not cut the list.
C15_SamePointIncluded ==
    SearchOk =>
      \A i \in 1 .. Len(mechanics) :
        (AtQueryPoint(i) /\ PassesFilter(i)) =>
          /\ DistanceOf(mechanics[i]) = 0
          /\ \E j \in 1 .. Len(nearby.nearby_results) :
               /\ nearby.nearby_results[j].id = mechanics[i].id
               /\ nearby.nearby_results[j].distance.v = 0
          /\ Len(nearby.nearby_results) <= nearby.limit => InList(nearby.result, i)

C15_Witness ==
    /\ SearchOk
    /\ nearby.radius = 0
    /\ Len(mechanics) = 2
    /\ AtQueryPoint(2) /\ PassesFilter(2)
    /\ Located(1) /\ ~AtQueryPoint(1)
    /\ Len(nearby.result) = 1
    /\ nearby.result[1].id = mechanics[2].id
    /\ nearby.result[1].distance.v = 0

----------------------------------------------------------------------------
(* What the two lookups do to the rows they fetch and to the data service *)

\* The fetched profile i reaches the loop of nearby_mechanics.
ReachesLoop(i) == Located(i) /\ PassesFilter(i)

\* Record f is record m with the loop's additions and nothing else changed:
\* a 'distance' is set, and a 'users' object is moved into full_name.
OnlyAnnotated(f, m) ==
    /\ f.id = m.id
    /\ f.current_latitude = m.current_latitude
    /\ f.current_longitude = m.current_longitude
    /\ f.specialties = m.specialties
    /\ f.distance.kind = "num"
    /\ IF m.users.kind = "dict"
       THEN f.users = AbsentUser /\ f.full_name = m.users.full_name
       ELSE f.users = m.users /\ f.full_name = m.full_name

\* C16 (the claim as stated): both routines leave every record fetched from
\* the data service unchanged.
C16_FetchedUnchanged ==
    /\ LookupOk => avail.fetched = SelectByMechanic(bookings, avail.mechanic_id)
    /\ SearchOk => nearby.fetched = mechanics

\* C16 (amended): neither routine writes to the data service, and
\* is_mechanic_available leaves every fetched record unchanged;
\* nearby_mechanics changes, in place, exactly the fetched records that pass
\* the coordinate and specialty filters: it sets their 'distance' and moves
\* a 'users' object into full_name, and changes nothing else.
C16_OnlyAnnotatesFetched ==
    /\ [](/\ LookupOk => avail.fetched = SelectByMechanic(bookings, avail.mechanic_id)
          /\ SearchOk =>
               /\ Len(nearby.fetched) = Len(mechanics)
               /\ \A i \in 1 .. Len(mechanics) :
                    IF ReachesLoop(i)
                    THEN OnlyAnnotated(nearby.fetched[i], mechanics[i])
                    ELSE nearby.fetched[i] = mechanics[i])
    /\ [][bookings' = bookings /\ mechanics' = mechanics]_vars

C16_Witness ==
    /\ LookupOk /\ Len(avail.fetched) = 1 /\ avail.fetched[1] = bookings[1]
    /\ SearchOk /\ Len(mechanics) = 2
    /\ ~ReachesLoop(1) /\ nearby.fetched[1] = mechanics[1]
    /\ ReachesLoop(2) /\ nearby.fetched[2] # mechanics[2]
    /\ nearby.fetched[2].distance = Num(1)

----------------------------------------------------------------------------
(* The status of a booking *)

\* The statuses the docstring of update_booking_status lists.
BookingStatuses == {"pending", "accepted", "in_progress", "completed", "cancelled"}

\* C17 (the claim as stated): after any sequence of create_booking and
\* update_booking_status calls, every row of the bookings table and every
\* booking returned by update_booking_status has a status among pending,
\* accepted, in_progress, completed and cancelled.
C17_StatusInSet ==
    /\ \A i \in 1 .. Len(bookings) : bookings[i].status \in BookingStatuses
    /\ last.op = "update_booking_status" => last.returned.status \in BookingStatuses

----------------------------------------------------------------------------
(* The profile endpoints: what a request is answered with *)

\* C18 (the claim as stated): GET /profile/{user_id} answers with role
\* 'mechanic' when a mechanic profile exists for the id, otherwise with role
\* 'customer' when a customer record exists for the id, and otherwise with
\* HTTP 404 'No profile found'.
C18_RoleByProfile ==
    (http.op = "GET /profile" /\ http.lookups = <<"ok">>) =>
      IF accounts.mechanic_profiles[http.user_id].kind = "row"
      THEN http.outcome.status = 200 /\ http.outcome.role = "mechanic"
      ELSE IF accounts.users[http.user_id].kind = "row"
      THEN http.outcome.status = 200 /\ http.outcome.role = "customer"
      ELSE http.outcome.status = 404 /\ http.outcome.detail = "No profile found"

\* C19 (the claim as stated): PUT /profile with a role that is, in lower case,
\* neither 'mechanic' nor 'customer' is answered with HTTP status 400.
C19_InvalidRoleIs400 ==
    (http.op = "PUT /profile" /\ Lower(http.role) \notin {MechanicRole, CustomerRole}) =>
      http.outcome.status = 400

----------------------------------------------------------------------------
(* search_mechanics: the range it requests *)

SearchDone == search.phase = "done"

\* C20: for page p >= 1 and limit L >= 1 search_mechanics requests the
\* inclusive row range [(p-1)*L, p*L - 1]: page 1 starts at row 0, a page
\* spans exactly L rows, the range of page p+1 starts right after the range
\* of page p, and a successful call returns the rows of that range that exist.
C20_PageRange ==
    SearchDone =>
      LET p == search.page
          L == search.limit
          next == search_mechanics(search.specialty, search.city, search.rating_min,
                                   search.rating_max, p + 1, L, search.matching,
                                   search.lookup).query
      IN /\ search.query.from = (p - 1) * L
         /\ search.query.to = p * L - 1
         /\ p = 1 => search.query.from = 0
         /\ search.query.to - search.query.from + 1 = L
         /\ next.from = search.query.to + 1
         /\ next.to - next.from + 1 = L
         /\ search.lookup = "ok" =>
              /\ Len(search.returned) <= L
              /\ \A k \in 1 .. Len(search.returned) :
                   search.returned[k] = search.query.from + k - 1
              /\ search.matching > search.query.to => Len(search.returned) = L

C20_Witness ==
    /\ SearchDone
    /\ search.lookup = "ok"
    /\ search.page = 2 /\ search.limit = 3
    /\ search.matching = MaxMatch
    /\ search.query.from = 3 /\ search.query.to = 5
    /\ search.returned = <<3, 4, 5>>

----------------------------------------------------------------------------
(* The bookings table over sequences of calls *)

\* Rows a and b are active bookings of one mechanic whose intervals
\* [start, start + duration) overlap.
DoubleBooked(a, b) ==
    /\ a.mechanic_id = b.mechanic_id
    /\ a.status \notin {"cancelled", "completed"}
    /\ b.status \notin {"cancelled", "completed"}
    /\ a.booking_time.t < b.booking_time.t + b.service_duration.n
    /\ b.booking_time.t < a.booking_time.t + a.service_duration.n

\* C21 (the claim as stated): starting from an empty table, after any
\* sequence of create_booking and update_booking_status calls made one at a
\* time against a working data service, no two rows of the table are active
\* bookings of the same mechanic with overlapping intervals.
C21_NoDoubleBooking ==
    \A i, j \in 1 .. Len(bookings) : i # j => ~DoubleBooked(bookings[i], bookings[j])

\* The calls of the two callers are for the same mechanic, with booking
\* times that parsed and windows that overlap.
SameSlotRequested ==
    LET a == calls["c1"].args
        b == calls["c2"].args
    IN /\ calls["c1"].pc # "idle" /\ calls["c2"].pc # "idle"
       /\ a.mechanic_id = b.mechanic_id
       /\ a.booking_time.kind = "iso" /\ b.booking_time.kind = "iso"
       /\ a.booking_time.t < b.booking_time.t + b.service_duration
       /\ b.booking_time.t < a.booking_time.t + a.service_duration

\* C22 (the claim as stated): when two create_booking calls for the same
\* mechanic with overlapping windows run at the same time, each doing its
\* lookup and its insert as separate data-service calls that succeed, at most
\* one of them inserts a row into the bookings table.
C22_AtMostOneInserts ==
    (SameSlotRequested /\ calls["c1"].lookup \in {"ok", "-"}
                       /\ calls["c2"].lookup \in {"ok", "-"}) =>
      ~(calls["c1"].stored # << >> /\ calls["c2"].stored # << >>)

\* Row b is a booking of the requested mechanic whose interval overlaps the
\* requested window, whatever its status.
InRequestedWindow(b) ==
    /\ b.mechanic_id = last.args.mechanic_id
    /\ last.args.booking_time.t < b.booking_time.t + b.service_duration.n
    /\ last.args.booking_time.t + last.args.service_duration > b.booking_time.t

Freed(b) == b.status = "cancelled" \/ b.status = "completed"

\* C23: once update_booking_status has set a booking to 'cancelled' or
\* 'completed', a create_booking for the same mechanic and a window that
\* overlaps only such bookings passes the availability check and sends the
\* insert, and the row is in the table when the insert succeeds.
C23_CancelledFreesSlot ==
    (/\ Created
     /\ last.args.booking_time.kind = "iso"
     /\ last.lookup = "ok"
     /\ \E i \in RowsBefore : InRequestedWindow(bookings[i]) /\ Freed(bookings[i])
     /\ \A i \in RowsBefore : InRequestedWindow(bookings[i]) => Freed(bookings[i]))
      => /\ last.available = "yes"
         /\ InsertSent
         /\ last.insert = "ok" =>
              /\ last.stored # << >>
              /\ \E i \in 1 .. Len(bookings) : <<bookings[i]>> = last.stored

C23_Witness ==
    /\ Created
    /\ last.lookup = "ok"
    /\ Len(bookings) = 2
    /\ bookings[1].status = "completed"
    /\ InRequestedWindow(bookings[1])
    /\ last.stored = <<bookings[2]>>
    /\ bookings[2].booking_time = bookings[1].booking_time

\* The steps of a complete create_booking call, in order.
StepOrder == <<"select", "process_payment", "insert", "send_notification">>

\* C24: within one create_booking call the steps taken are, in this order,
\* the availability check, the payment, the insert and the notification, up
\* to the step at which the call stops; the payment is processed only after
\* the availability check passed, and the notification is sent only after the
\* insert returned a row, never for a booking that was not persisted.
C24_StepOrder ==
    Created =>
      /\ Len(last.steps) <= Len(StepOrder)
      /\ last.steps = SubSeq(StepOrder, 1, Len(last.steps))
      /\ StepAt("process_payment") # {} => last.available = "yes"
      /\ StepAt("send_notification") # {} =>
           /\ last.insert = "ok"
           /\ last.stored # << >>
           /\ last.returned.id.kind = "db"
      /\ last.stored = << >> => StepAt("send_notification") = {}

C24_Witness ==
    /\ Created
    /\ last.steps = <<"select", "process_payment", "insert">>
    /\ last.insert = "empty"
    /\ last.stored = << >>


----------------------------------------------------------------------------
(* is_mechanic_available: a booking whose examination raises *)

\* Examining row b raises: its booking_time or service_duration is missing,
\* null or cannot be parsed.
Malformed(b) == ~WellFormed(b)

\* C25: when examining one active booking raises (its booking_time or
\* service_duration is missing, null or unparseable) the booking is skipped
\* and the remaining ones are still checked, so a well-formed active booking
\* later in the list that overlaps the request still yields "unavailable".
C25_MalformedSkipped ==
    (LookupOk /\ \E i, j \in ActiveRows :
        /\ i < j
        /\ Malformed(bookings[i])
        /\ Overlaps(bookings[j]))
    => avail.result = FALSE

\* The part of C25 that the code keeps: a booking whose booking_time or
\* service_duration is missing, or whose booking_time is unparseable, is
\* skipped and a later overlapping booking is still found.
C25_KeyAndValueErrorsSkipped ==
    (LookupOk /\ (\A i \in ActiveRows :
                     /\ bookings[i].booking_time.kind # "null"
                     /\ bookings[i].service_duration.kind # "null")
              /\ \E i, j \in ActiveRows :
                   /\ i < j
                   /\ Malformed(bookings[i])
                   /\ Overlaps(bookings[j]))
    => avail.result = FALSE


----------------------------------------------------------------------------
(* create_booking: the booking returned *)

\* The call returned a booking that was not persisted.
NotPersisted == Created /\ last.stored = << >>

\* C26: whenever create_booking returns a booking that was not persisted
\* (mechanic unavailable, invalid booking_time, insert error, or insert
\* returning no rows) the returned id is a 'mock-' id, its user_id,
\* mechanic_id, booking_time and service_duration equal the request's, and its
\* status is 'pending'; a booking returned after a successful insert is the
\* row returned by the data service.
C26_ReturnedBooking ==
    /\ NotPersisted =>
         /\ last.returned.id = MockId
         /\ last.returned.user_id = last.args.user_id
         /\ last.returned.mechanic_id = last.args.mechanic_id
         /\ last.returned.booking_time = last.args.booking_time
         /\ last.returned.service_duration = IntDur(last.args.service_duration)
         /\ last.returned.status = "pending"
    /\ (Created /\ last.stored # << >>) =>
         /\ last.returned = last.stored[1]
         /\ last.returned.id.kind = "db"

C26_Witness ==
    /\ NotPersisted
    /\ last.args.booking_time = NotIso
    /\ last.steps = << >>
    /\ last.returned.id = MockId
    /\ last.returned.booking_time = NotIso

====
